---- MODULE Spec2Model ----
(***************************************************************************)
(* A model of the BitTorrent tracker in tracker.py: the Tracker object     *)
(* (torrents, torrent_info), its persisted document, the clock, the value  *)
(* the last operation returned, and the request handlers built on it.      *)
(***************************************************************************)
EXTENDS Integers, Sequences, FiniteSets, TLC

(* ------------------------------------------------------------------ *)
(* Bounds of the model                                                 *)
(* ------------------------------------------------------------------ *)

\* The clock never passes this time (seconds since the first start).
MaxTime == 1800

(* ------------------------------------------------------------------ *)
(* Program constants                                                   *)
(* ------------------------------------------------------------------ *)

\* get_peers / load_state: a peer is kept iff now - last_seen < 1800.
StaleAfter == 1800
\* announce: the 'interval' of every successful response.
Interval == 1800
\* find_similar_hash: target_hash[:10], target_hash[-5:], len >= 15.
PrefixLen == 10
SuffixLen == 5
MinHashLen == 15
\* add_torrent_info.py: for attempt in range(MAX_RETRIES), time.sleep(RETRY_DELAY).
MAX_RETRIES == 3
RETRY_DELAY == 2

(* ------------------------------------------------------------------ *)
(* Values                                                              *)
(* ------------------------------------------------------------------ *)

\* Python's None where a str is expected (a peer id, a query parameter).
NoneVal == "<None>"

\* Python's None where an info hash is expected.
NoneHash == <<0 - 1>>

Rep(c, n) == [i \in 1..n |-> c]

\* Info hashes are strings; a string is modelled as the tuple of its
\* characters.  HA and HB agree on the first 10 and the last 5 characters.
HA == Rep(1, 10) \o <<7>> \o Rep(2, 5)
HB == Rep(1, 10) \o <<8>> \o Rep(2, 5)

\* The values of one add_peer call: ip, port, uploaded, downloaded, left.
In1 == [ip |-> "10.0.0.1", port |-> 6881, uploaded |-> 0, downloaded |-> 0, left |-> 0]
In2 == [ip |-> "10.0.0.2", port |-> 6882, uploaded |-> 5, downloaded |-> 7, left |-> 100]

\* The clock's steps: one second short of the staleness threshold, the
\* threshold itself, and one second more.
Deltas == {StaleAfter - 1, StaleAfter, StaleAfter + 1}

Range(s) == {s[i] : i \in DOMAIN s}

\* The orders in which a set can be iterated.
Orderings(S) == {s \in [1..Cardinality(S) -> S] : Range(s) = S}

(* ------------------------------------------------------------------ *)
(* Python dictionaries: a mapping with the insertion order of its keys *)
(* ------------------------------------------------------------------ *)

EmptyMap == [k \in {} |-> 0]

EmptyDict == [keys |-> <<>>, at |-> EmptyMap]

Has(d, k) == k \in DOMAIN d.at

\* d[k] = v
DPut(d, k, v) ==
  [keys |-> IF Has(d, k) THEN d.keys ELSE Append(d.keys, k),
   at   |-> [x \in (DOMAIN d.at) \cup {k} |-> IF x = k THEN v ELSE d.at[x]]]

\* del d[k]
DDel(d, k) ==
  [keys |-> SelectSeq(d.keys, LAMBDA x : x # k),
   at   |-> [x \in (DOMAIN d.at) \ {k} |-> d.at[x]]]

\* dict.get(key, default) on a mapping
Get(f, k, d) == IF k \in DOMAIN f THEN f[k] ELSE d

\* Python truthiness of a str-or-None value.
Truthy(x) == x # NoneVal /\ x # ""

(* ------------------------------------------------------------------ *)
(* The Tracker object                                                  *)
(* ------------------------------------------------------------------ *)

VARIABLES
  torrents,      \* Tracker.torrents: info_hash -> set of Peer
  torrent_info,  \* Tracker.torrent_info: info_hash -> TorrentInfo
  file,          \* tracker_state.json: [exists, json, torrents]
  now,           \* time.time()
  ret,           \* what the last operation returned
  saved,         \* history: the Tracker and the time at the last save_state
  heap,          \* the set objects made by handlers that run concurrently
  ref,           \* info_hash -> the object of heap that torrents[info_hash] is
  threads,       \* the handlers in progress: position and local variables
  proc,          \* the process: shutdown_event and where the main thread is
  client         \* add_torrent_info.py: the file and attempt it is at, its POSTs

vars == <<torrents, torrent_info, file, now, ret, saved, heap, ref, threads, proc, client>>

\* What only handlers running concurrently touch: which object a set is
\* matters once a handler can hold a reference across another one's store.
conc == <<heap, ref, threads>>

\* The two dictionaries of a Tracker, as one value.
State(t, i) == [torrents |-> t, torrent_info |-> i]

Cur == State(torrents, torrent_info)

\* Peer(...)
Peer(peer_id, ip, port, last_seen, uploaded, downloaded, left, is_seeder) ==
  [peer_id |-> peer_id, ip |-> ip, port |-> port, last_seen |-> last_seen,
   uploaded |-> uploaded, downloaded |-> downloaded, left |-> left,
   is_seeder |-> is_seeder]

\* TorrentInfo(...)
TorrentInfo(info_hash, name, size, piece_length, creation_date, comment, created_by) ==
  [info_hash |-> info_hash, name |-> name, size |-> size,
   piece_length |-> piece_length, creation_date |-> creation_date,
   comment |-> comment, created_by |-> created_by]

\* Tracker.add_torrent(info_hash) with its default arguments, at time t.
AddTorrent(st, h, t) ==
  LET info == IF ~Has(st.torrent_info, h)
              THEN DPut(st.torrent_info, h, TorrentInfo(h, "", 0, 0, t, "", ""))
              ELSE st.torrent_info
      tor  == IF ~Has(st.torrents, h)
              THEN DPut(st.torrents, h, {})
              ELSE st.torrents
  IN State(tor, info)

\* new_peer built with the dataclass default of is_seeder left in place.
NewPeerDefaultSeeder(p, in, t) ==
  Peer(p, in.ip, in.port, t, in.uploaded, in.downloaded, in.left, FALSE)

\* The record add_peer builds (new_peer).
NewPeer(p, in, t) ==
  Peer(p, in.ip, in.port, t, in.uploaded, in.downloaded, in.left, in.left = 0)

\* add_peer with the removal of the old entry left out.
WithoutPeerKeepsOld(s, p) == s

\* add_peer's first assignment: the set without the old entry of peer_id.
WithoutPeer(s, p) == {x \in s : x.peer_id # p}

\* Tracker.add_peer(info_hash, peer_id, ip, port, uploaded, downloaded, left)
AddPeer(st, h, p, in, t) ==
  LET s1 == IF ~Has(st.torrents, h) THEN AddTorrent(st, h, t) ELSE st
      s2 == WithoutPeer(s1.torrents.at[h], p)
  IN State(DPut(s1.torrents, h, s2 \cup {NewPeer(p, in, t)}), s1.torrent_info)

\* The staleness test with the boundary second counted as active.
IsActiveInclusive(peer, t) == t - peer.last_seen <= StaleAfter

\* The staleness test of get_peers and load_state.
IsActive(peer, t) == t - peer.last_seen < StaleAfter

ActiveOf(s, t) == {peer \in s : IsActive(peer, t)}

\* get_peers deleting a swarm it has emptied.
GetPeersStateDropsEmpty(st, h, t) ==
  IF ~Has(st.torrents, h) THEN st
  ELSE IF ActiveOf(st.torrents.at[h], t) = {}
       THEN State(DDel(st.torrents, h), st.torrent_info)
       ELSE State(DPut(st.torrents, h, ActiveOf(st.torrents.at[h], t)), st.torrent_info)

\* Tracker.get_peers: the state it leaves (stale peers evicted).
GetPeersState(st, h, t) ==
  IF ~Has(st.torrents, h) THEN st
  ELSE State(DPut(st.torrents, h, ActiveOf(st.torrents.at[h], t)), st.torrent_info)

\* get_peers returning the requester with the others.
ExcludeNobody(active, req) == active

\* get_peers' last statements: drop the requesting peer when one is given.
ExcludeRequester(active, req) ==
  IF Truthy(req) THEN {peer \in active : peer.peer_id # req} ELSE active

\* Tracker.get_peers: the set it returns.
GetPeersRet(st, h, req, t) ==
  IF ~Has(st.torrents, h) THEN {}
  ELSE ExcludeRequester(ActiveOf(st.torrents.at[h], t), req)

RECURSIVE SumOver(_, _)
\* sum(p.<field> for p in peers)
SumOver(s, field) ==
  IF s = {} THEN 0
  ELSE LET x == CHOOSE y \in s : TRUE
       IN x[field] + SumOver(s \ {x}, field)

\* The dictionary get_stats builds from the peers get_peers returned.
StatsOf(peers) ==
  LET seeders == Cardinality({p \in peers : p.is_seeder})
  IN [complete |-> seeders,
      incomplete |-> Cardinality(peers) - seeders,
      downloaded |-> SumOver(peers, "downloaded"),
      uploaded |-> SumOver(peers, "uploaded"),
      peers |-> Cardinality(peers)]

\* Tracker.get_stats: the dictionary it returns.
GetStatsRet(st, h, t) ==
  IF ~Has(st.torrents, h) THEN EmptyMap
  ELSE StatsOf(GetPeersRet(st, h, NoneVal, t))

\* Tracker.get_stats: the state it leaves.
GetStatsState(st, h, t) ==
  IF ~Has(st.torrents, h) THEN st ELSE GetPeersState(st, h, t)

(* ------------------------------------------------------------------ *)
(* Persistence                                                         *)
(* ------------------------------------------------------------------ *)

PeerFields ==
  {"peer_id", "ip", "port", "last_seen", "uploaded", "downloaded", "left", "is_seeder"}

InfoFields ==
  {"info_hash", "name", "size", "piece_length", "creation_date", "comment", "created_by"}

\* Peer.to_dict: asdict(self)
PeerToDict(p) == [k \in PeerFields |-> p[k]]

\* Peer.from_dict that forgets the byte counters.
PeerFromDictNoCounters(d) ==
  Peer(d["peer_id"], d["ip"], d["port"], d["last_seen"], 0, 0, Get(d, "left", 0),
       Get(d, "is_seeder", FALSE))

\* Peer.from_dict: cls(**data), the dataclass defaults for absent keys
PeerFromDict(d) ==
  Peer(d["peer_id"], d["ip"], d["port"], d["last_seen"],
       Get(d, "uploaded", 0), Get(d, "downloaded", 0), Get(d, "left", 0),
       Get(d, "is_seeder", FALSE))

\* TorrentInfo.to_dict: asdict(self)
InfoToDict(i) == [k \in InfoFields |-> i[k]]

\* TorrentInfo.from_dict: cls(**data), the dataclass defaults for absent keys
InfoFromDict(d) ==
  TorrentInfo(d["info_hash"], Get(d, "name", ""), Get(d, "size", 0),
              Get(d, "piece_length", 0), Get(d, "creation_date", 0),
              Get(d, "comment", NoneVal), Get(d, "created_by", NoneVal))

RECURSIVE SaveFrom(_, _, _, _)
\* save_state's dict comprehension from the i-th key of torrent_info on:
\* the state it leaves (get_peers and get_stats evict) and the entries it
\* builds, given the order ord[h] in which each set is iterated.
SaveFrom(st, i, t, ord) ==
  IF i > Len(st.torrent_info.keys) THEN [st |-> st, doc |-> EmptyDict]
  ELSE LET h     == st.torrent_info.keys[i]
           peers == GetPeersRet(st, h, NoneVal, t)
           s1    == GetPeersState(st, h, t)
           stats == GetStatsRet(s1, h, t)
           s2    == GetStatsState(s1, h, t)
           rest  == SaveFrom(s2, i + 1, t, ord)
           entry == [info |-> InfoToDict(st.torrent_info.at[h]),
                     peers_info |-> [j \in DOMAIN ord[h] |-> PeerToDict(ord[h][j])],
                     stats |-> stats]
       IN [st  |-> rest.st,
           doc |-> [keys |-> <<h>> \o rest.doc.keys,
                    at   |-> [x \in {h} \cup DOMAIN rest.doc.at |->
                                IF x = h THEN entry ELSE rest.doc.at[x]]]]

\* The iteration orders save_state can meet: one ordering of the peers
\* get_peers returns, for every key of torrent_info.
SaveOrders(st, t) ==
  {ord \in [DOMAIN st.torrent_info.at -> UNION {Orderings(GetPeersRet(st, h, NoneVal, t)) :
                                                h \in DOMAIN st.torrent_info.at}] :
     \A h \in DOMAIN st.torrent_info.at :
       ord[h] \in Orderings(GetPeersRet(st, h, NoneVal, t))}

RECURSIVE ReportFrom(_, _, _)
\* save_state's report after the dump: get_stats for every key of
\* self.torrents, in the order ks; the state it leaves.
ReportFrom(st, ks, t) ==
  IF ks = <<>> THEN st
  ELSE ReportFrom(GetStatsState(st, Head(ks), t), Tail(ks), t)

RECURSIVE InsertAsc(_, _)
\* The insertion of an ascending sort (reverse=True forgotten).
InsertAsc(x, s) ==
  IF s = <<>> THEN <<x>>
  ELSE IF Head(s)["last_seen"] <= x["last_seen"]
       THEN <<Head(s)>> \o InsertAsc(x, Tail(s))
       ELSE <<x>> \o s

RECURSIVE InsertDesc(_, _)
\* x placed behind every entry whose last_seen is not smaller
InsertDesc(x, s) ==
  IF s = <<>> THEN <<x>>
  ELSE IF Head(s)["last_seen"] >= x["last_seen"]
       THEN <<Head(s)>> \o InsertDesc(x, Tail(s))
       ELSE <<x>> \o s

RECURSIVE SortDesc(_)
\* sorted(peers_info, key=last_seen, reverse=True): stable
SortDesc(s) ==
  IF s = <<>> THEN <<>>
  ELSE InsertDesc(s[Len(s)], SortDesc(SubSeq(s, 1, Len(s) - 1)))

RECURSIVE UniquePeers(_, _)
\* load_state's unique_peers loop: the first entry of every peer_id
UniquePeers(s, seen) ==
  IF s = <<>> THEN {}
  ELSE IF Head(s)["peer_id"] \in seen
       THEN UniquePeers(Tail(s), seen)
       ELSE {PeerFromDict(Head(s))} \cup UniquePeers(Tail(s), seen \cup {Head(s)["peer_id"]})

RECURSIVE RestoreInfo(_, _)
\* load_state: torrent_info rebuilt from the document, from its i-th key on
RestoreInfo(doc, i) ==
  IF i > Len(doc.keys) THEN EmptyDict
  ELSE LET rest == RestoreInfo(doc, i + 1)
           h    == doc.keys[i]
       IN [keys |-> <<h>> \o rest.keys,
           at   |-> [x \in {h} \cup DOMAIN rest.at |->
                       IF x = h THEN InfoFromDict(doc.at[h]["info"]) ELSE rest.at[x]]]

RECURSIVE RestorePeers(_, _)
\* load_state: torrents rebuilt from the document, from its i-th key on
RestorePeers(doc, i) ==
  IF i > Len(doc.keys) THEN EmptyDict
  ELSE LET rest == RestorePeers(doc, i + 1)
           h    == doc.keys[i]
           peers_info == Get(doc.at[h], "peers_info", <<>>)
       IN IF peers_info = <<>> THEN rest
          ELSE [keys |-> <<h>> \o rest.keys,
                at   |-> [x \in {h} \cup DOMAIN rest.at |->
                            IF x = h THEN UniquePeers(SortDesc(peers_info), {})
                            ELSE rest.at[x]]]

RECURSIVE Cleanup(_, _, _)
\* load_state: "clean up old peers on load", over list(self.torrents.keys())
Cleanup(st, ks, t) ==
  IF ks = <<>> THEN st
  ELSE LET h      == Head(ks)
           active == ActiveOf(st.torrents.at[h], t)
       IN IF active # {}
          THEN Cleanup(State(DPut(st.torrents, h, active), st.torrent_info), Tail(ks), t)
          ELSE Cleanup(State(DDel(st.torrents, h),
                             IF Has(st.torrent_info, h)
                             THEN DDel(st.torrent_info, h)
                             ELSE st.torrent_info),
                       Tail(ks), t)

\* A last_seen the document holds as null: no number, so every comparison
\* and subtraction with it raises TypeError.
NullSeen == 0 - 1

\* torrent_data['info'] and TorrentInfo.from_dict raise on the entry e:
\* no 'info' key, no info_hash, or a key that is no field of TorrentInfo.
InfoRaises(e) ==
  \/ "info" \notin DOMAIN e
  \/ "info_hash" \notin DOMAIN e["info"]
  \/ ~(DOMAIN e["info"] \subseteq InfoFields)

\* Peer.from_dict raises on d: a field without default is absent, or a
\* key is no field of Peer.
PeerRaises(d) ==
  \/ ~({"peer_id", "ip", "port", "last_seen"} \subseteq DOMAIN d)
  \/ ~(DOMAIN d \subseteq PeerFields)

\* sorted(peers_info, key=lambda p: p['last_seen']) raises: a dict has no
\* last_seen, or a null is compared (any list of two entries or more).
SortRaises(l) ==
  \/ \E j \in DOMAIN l : "last_seen" \notin DOMAIN l[j]
  \/ Len(l) >= 2 /\ \E j \in DOMAIN l : l[j]["last_seen"] = NullSeen

RECURSIVE DedupRaises(_, _)
\* load_state's unique_peers loop raises on the sorted list s: an entry has
\* no peer_id, or from_dict raises on the first entry of a peer_id.
DedupRaises(s, seen) ==
  IF s = <<>> THEN FALSE
  ELSE IF "peer_id" \notin DOMAIN Head(s) THEN TRUE
  ELSE IF Head(s)["peer_id"] \in seen THEN DedupRaises(Tail(s), seen)
  ELSE PeerRaises(Head(s)) \/ DedupRaises(Tail(s), seen \cup {Head(s)["peer_id"]})

\* load_state's loop body raises on the entry e.
PeersRaise(e) ==
  LET peers_info == Get(e, "peers_info", <<>>)
  IN /\ peers_info # <<>>
     /\ \/ SortRaises(peers_info)
        \/ DedupRaises(SortDesc(peers_info), {})

\* The first index at which the sequence of booleans bs is TRUE, or
\* Len(bs) + 1: the iteration of a loop that raises.
FirstIndex(bs) ==
  IF \E i \in DOMAIN bs : bs[i]
  THEN CHOOSE i \in DOMAIN bs : bs[i] /\ \A j \in 1..(i - 1) : ~bs[j]
  ELSE Len(bs) + 1

\* The cleanup's set comprehension raises on the swarm S:
\* current_time - peer.last_seen with a null.
CleanupRaises(S) == \E p \in S : p.last_seen = NullSeen

\* The try block of load_state on the existing document f at time t:
\* whether it raised, and the maps as it left them.  self.torrent_info is
\* assigned only when its comprehension has finished; self.torrents grows
\* entry by entry; the cleanup deletes key by key.
LoadAttempt(f, t) ==
  LET doc == f.torrents
      init == State(EmptyDict, EmptyDict)
  IN IF ~f.json THEN [raised |-> TRUE, st |-> init]
     ELSE IF \E h \in DOMAIN doc.at : InfoRaises(doc.at[h])
     THEN [raised |-> TRUE, st |-> init]
     ELSE LET n    == FirstIndex([i \in DOMAIN doc.keys |-> PeersRaise(doc.at[doc.keys[i]])])
              done == [keys |-> SubSeq(doc.keys, 1, n - 1), at |-> doc.at]
              st   == State(RestorePeers(done, 1), RestoreInfo(doc, 1))
          IN IF n <= Len(doc.keys) THEN [raised |-> TRUE, st |-> st]
             ELSE LET m == FirstIndex([i \in DOMAIN st.torrents.keys |->
                                         CleanupRaises(st.torrents.at[st.torrents.keys[i]])])
                  IN [raised |-> m <= Len(st.torrents.keys),
                      st |-> Cleanup(st, SubSeq(st.torrents.keys, 1, m - 1), t)]

\* load_state whose except branch leaves the maps as they are.
LoadStateNoReset(f, t) ==
  IF ~f.exists THEN State(EmptyDict, EmptyDict)
  ELSE LoadAttempt(f, t).st

\* Tracker.__init__ followed by load_state on the document f, at time t:
\* "except Exception" empties both maps.
LoadState(f, t) ==
  IF ~f.exists THEN State(EmptyDict, EmptyDict)
  ELSE LET a == LoadAttempt(f, t)
       IN IF a.raised THEN State(EmptyDict, EmptyDict) ELSE a.st
(* ------------------------------------------------------------------ *)
(* Metadata update                                                     *)
(* ------------------------------------------------------------------ *)

\* s[:n]
Prefix(s, n) == SubSeq(s, 1, IF n < Len(s) THEN n ELSE Len(s))

\* s[-n:]
Suffix(s, n) == SubSeq(s, IF Len(s) > n THEN Len(s) - n + 1 ELSE 1, Len(s))

RECURSIVE FirstSimilarAnyLength(_, _)
\* The loop without the test of the existing hash's length.
FirstSimilarAnyLength(target, keys) ==
  IF keys = <<>> THEN NoneHash
  ELSE IF /\ Prefix(Head(keys), PrefixLen) = Prefix(target, PrefixLen)
          /\ Suffix(Head(keys), SuffixLen) = Suffix(target, SuffixLen)
       THEN Head(keys)
       ELSE FirstSimilarAnyLength(target, Tail(keys))

RECURSIVE FirstSimilar(_, _)
\* find_similar_hash's loop over existing_hashes, in iteration order
FirstSimilar(target, keys) ==
  IF keys = <<>> THEN NoneHash
  ELSE IF /\ Len(Head(keys)) >= MinHashLen
          /\ Prefix(Head(keys), PrefixLen) = Prefix(target, PrefixLen)
          /\ Suffix(Head(keys), SuffixLen) = Suffix(target, SuffixLen)
       THEN Head(keys)
       ELSE FirstSimilar(target, Tail(keys))

\* find_similar_hash(target_hash, existing_hashes), target_hash a string
FindSimilarHash(target, keys) ==
  IF keys = <<>> \/ Len(target) < MinHashLen THEN NoneHash
  ELSE FirstSimilar(target, keys)

\* The assignments with one more, of the posted info_hash.
UpdatedInfoWithHash(info, data) ==
  [info EXCEPT !.info_hash = data["info_hash"],
               !.name = Get(data, "name", ""),
               !.size = Get(data, "size", 0),
               !.piece_length = Get(data, "piece_length", 0),
               !.comment = Get(data, "comment", ""),
               !.created_by = Get(data, "created_by", "")]

\* The five assignments of add_torrent_info to torrent_info[h].
UpdatedInfo(info, data) ==
  [info EXCEPT !.name = Get(data, "name", ""),
               !.size = Get(data, "size", 0),
               !.piece_length = Get(data, "piece_length", 0),
               !.comment = Get(data, "comment", ""),
               !.created_by = Get(data, "created_by", "")]

\* POST /add_torrent_info with JSON body data (an object, possibly empty):
\* the status it answers with and the state it leaves.
AddTorrentInfo(st, data) ==
  IF DOMAIN data = {} \/ "info_hash" \notin DOMAIN data
  THEN [status |-> 400, st |-> st]
  ELSE IF st.torrents.keys # <<>> /\ data["info_hash"] = NoneHash
  THEN [status |-> 500, st |-> st]
  ELSE LET similar == FindSimilarHash(data["info_hash"], st.torrents.keys)
       IN IF similar = NoneHash \/ similar = <<>>
          THEN [status |-> 400, st |-> st]
          ELSE IF ~Has(st.torrent_info, similar)
          THEN [status |-> 500, st |-> st]
          ELSE [status |-> 200,
                st |-> State(st.torrents,
                             DPut(st.torrent_info, similar,
                                  UpdatedInfo(st.torrent_info.at[similar], data)))]

\* The body the metadata client posts for info hash h.
MetaFull(h) ==
  [info_hash |-> h, name |-> "ubuntu.iso", size |-> 350, piece_length |-> 16384,
   comment |-> "c", created_by |-> "mk", creation_date |-> 1]

\* The bodies of the modelled metadata requests for info hash h.
MetaBodies(h) == {MetaFull(h), [name |-> "ubuntu.iso"]}

(* ------------------------------------------------------------------ *)
(* Announce                                                            *)
(* ------------------------------------------------------------------ *)

\* int(s) for the decimal strings of the model; int() raises on any other
\* string and on None.
IntOf ==
  [s \in {"0", "5", "7", "100", "6881", "6882"} |->
     CASE s = "0" -> 0 [] s = "5" -> 5 [] s = "7" -> 7 [] s = "100" -> 100
       [] s = "6881" -> 6881 [] s = "6882" -> 6882]

ParsesAsInt(s) == s \in DOMAIN IntOf

\* The query strings that carry the values In1 and In2.
Raw1 == [port |-> "6881", uploaded |-> "0", downloaded |-> "0", left |-> "0"]
Raw2 == [port |-> "6882", uploaded |-> "5", downloaded |-> "7", left |-> "100"]

\* A well-formed announce query.
Query(h, p, raw) == [info_hash |-> h, peer_id |-> p] @@ raw

\* The peer list of an announce response, for the peers in the order s.
PeerList(s) ==
  [j \in DOMAIN s |-> [peer_id |-> s[j].peer_id, ip |-> s[j].ip, port |-> s[j].port]]

\* GET /announce with query string q from address ip at time t: the status,
\* the state it leaves, and what the response is built from (the set
\* get_peers returned and the dictionary get_stats returned).
Announce(st, q, ip, t) ==
  LET info_hash == Get(q, "info_hash", NoneHash)
      peer_id   == Get(q, "peer_id", NoneVal)
      port_arg  == Get(q, "port", NoneVal)
      up_arg    == Get(q, "uploaded", "0")
      down_arg  == Get(q, "downloaded", "0")
      left_arg  == Get(q, "left", "0")
  IN IF ~(ParsesAsInt(port_arg) /\ ParsesAsInt(up_arg)
          /\ ParsesAsInt(down_arg) /\ ParsesAsInt(left_arg))
     THEN [status |-> 500, st |-> st, peers |-> {}]
     ELSE IF info_hash = NoneHash \/ info_hash = <<>> \/ ~Truthy(peer_id)
             \/ IntOf[port_arg] = 0
     THEN [status |-> 400, st |-> st, peers |-> {}]
     ELSE LET in == [ip |-> ip, port |-> IntOf[port_arg], uploaded |-> IntOf[up_arg],
                     downloaded |-> IntOf[down_arg], left |-> IntOf[left_arg]]
              s1 == AddPeer(st, info_hash, peer_id, in, t)
              peers == GetPeersRet(s1, info_hash, peer_id, t)
              s2 == GetPeersState(s1, info_hash, t)
              stats == GetStatsRet(s2, info_hash, t)
              s3 == GetStatsState(s2, info_hash, t)
          IN [status |-> 200, st |-> s3, h |-> info_hash, p |-> peer_id,
              peers |-> peers, stats |-> stats]

\* announce's return_vals, the set of peers being iterated in the order ord.
AnnounceBody(stats, ord) ==
  [interval |-> Interval,
   complete |-> stats["complete"],
   incomplete |-> stats["incomplete"],
   peers |-> PeerList(ord)]

(* ------------------------------------------------------------------ *)
(* Scrape                                                              *)
(* ------------------------------------------------------------------ *)

\* GET /scrape with query string q at time t: the status, the state it
\* leaves and the entry of 'files'.  get_stats returns {} for an info hash
\* without a swarm, and stats['complete'] then raises KeyError.
Scrape(st, q, t) ==
  LET info_hash == Get(q, "info_hash", NoneHash)
  IN IF info_hash = NoneHash \/ info_hash = <<>>
     THEN [status |-> 400, st |-> st]
     ELSE LET stats == GetStatsRet(st, info_hash, t)
              s1    == GetStatsState(st, info_hash, t)
          IN IF "complete" \notin DOMAIN stats
             THEN [status |-> 500, st |-> s1]
             ELSE [status |-> 200, st |-> s1,
                   entry |-> [complete |-> stats["complete"],
                              downloaded |-> stats["downloaded"],
                              incomplete |-> stats["incomplete"],
                              name |-> IF Has(s1.torrent_info, info_hash)
                                       THEN s1.torrent_info.at[info_hash].name
                                       ELSE ""]]

(* ------------------------------------------------------------------ *)
(* Statistics of all torrents                                          *)
(* ------------------------------------------------------------------ *)

RECURSIVE StatsRoute(_, _, _)
\* GET /stats: the loop over tracker.torrents from the keys ks on, at time
\* t: the state it leaves (get_stats evicts) and the entries it builds.
StatsRoute(st, ks, t) ==
  IF ks = <<>> THEN [st |-> st, body |-> EmptyMap]
  ELSE LET h     == Head(ks)
           known == Has(st.torrent_info, h)
           entry == [name |-> IF known THEN st.torrent_info.at[h].name ELSE "",
                     size |-> IF known THEN st.torrent_info.at[h].size ELSE 0,
                     creation_date |-> IF known THEN st.torrent_info.at[h].creation_date ELSE 0,
                     stats |-> GetStatsRet(st, h, t)]
           rest  == StatsRoute(GetStatsState(st, h, t), Tail(ks), t)
       IN [st   |-> rest.st,
           body |-> [x \in {h} \cup DOMAIN rest.body |->
                       IF x = h THEN entry ELSE rest.body[x]]]

(* ------------------------------------------------------------------ *)
(* Operations, one at a time                                           *)
(* ------------------------------------------------------------------ *)

NoRet == [op |-> "none"]

NoSave == [exists |-> FALSE]

\* The process with its server thread started and the main thread in its
\* loop: shutdown_event clear; fresh tells whether a save_state has started
\* since shutdown_event was set.
Serving == [flag |-> FALSE, main |-> "loop", fresh |-> FALSE]

\* No metadata client is running.
NoClient == [pc |-> "none"]

\* A process started where no document exists.
Init ==
  /\ file = [exists |-> FALSE, json |-> TRUE, torrents |-> EmptyDict]
  /\ now = 0
  /\ torrents = LoadState(file, now).torrents
  /\ torrent_info = LoadState(file, now).torrent_info
  /\ ret = NoRet
  /\ saved = NoSave
  /\ heap = <<>>
  /\ ref = EmptyMap
  /\ threads = EmptyMap
  /\ proc = Serving
  /\ client = NoClient

\* time passes between two operations
Tick ==
  /\ \E d \in Deltas : now + d <= MaxTime /\ now' = now + d
  /\ ret' = NoRet
  /\ UNCHANGED <<torrents, torrent_info, file, saved, conc, proc, client>>

\* a call of Tracker.add_peer
DoAddPeer(HS, PS, INS) ==
  \E h \in HS, p \in PS, in \in INS :
    LET st == AddPeer(Cur, h, p, in, now)
    IN /\ torrents' = st.torrents
       /\ torrent_info' = st.torrent_info
       /\ ret' = NoRet
       /\ UNCHANGED <<file, now, saved, conc, proc, client>>

\* a call of Tracker.get_peers
DoGetPeers(HS, RS) ==
  \E h \in HS, req \in RS :
    LET st == GetPeersState(Cur, h, now)
    IN /\ torrents' = st.torrents
       /\ torrent_info' = st.torrent_info
       /\ ret' = [op |-> "get_peers", h |-> h, req |-> req,
                  peers |-> GetPeersRet(Cur, h, req, now)]
       /\ UNCHANGED <<file, now, saved, conc, proc, client>>

\* a call of Tracker.get_stats
DoGetStats(HS) ==
  \E h \in HS :
    LET st == GetStatsState(Cur, h, now)
    IN /\ torrents' = st.torrents
       /\ torrent_info' = st.torrent_info
       /\ ret' = [op |-> "get_stats", h |-> h, stats |-> GetStatsRet(Cur, h, now)]
       /\ UNCHANGED <<file, now, saved, conc, proc, client>>

\* a request GET /announce
DoAnnounce(RS) ==
  \E rq \in RS :
    LET r == Announce(Cur, rq.q, rq.ip, now)
    IN \E ord \in Orderings(r.peers) :
         /\ torrents' = r.st.torrents
         /\ torrent_info' = r.st.torrent_info
         /\ ret' = IF r.status = 200
                   THEN [op |-> "announce", status |-> 200, q |-> rq.q, h |-> r.h,
                         p |-> r.p, body |-> AnnounceBody(r.stats, ord)]
                   ELSE [op |-> "announce", status |-> r.status, q |-> rq.q]
         /\ UNCHANGED <<file, now, saved, conc, proc, client>>

\* a request GET /scrape
DoScrape(QS) ==
  \E q \in QS :
    LET r == Scrape(Cur, q, now)
    IN /\ torrents' = r.st.torrents
       /\ torrent_info' = r.st.torrent_info
       /\ ret' = IF r.status = 200
                 THEN [op |-> "scrape", status |-> 200, q |-> q, entry |-> r.entry]
                 ELSE [op |-> "scrape", status |-> r.status, q |-> q]
       /\ UNCHANGED <<file, now, saved, conc, proc, client>>

\* a request GET /stats
DoStats ==
  LET r == StatsRoute(Cur, torrents.keys, now)
  IN /\ torrents' = r.st.torrents
     /\ torrent_info' = r.st.torrent_info
     /\ ret' = [op |-> "stats", status |-> 200, body |-> r.body]
     /\ UNCHANGED <<file, now, saved, conc, proc, client>>

\* a request POST /add_torrent_info
DoAddTorrentInfo(HS) ==
  \E h \in HS : \E data \in MetaBodies(h) :
    LET r == AddTorrentInfo(Cur, data)
    IN /\ torrents' = r.st.torrents
       /\ torrent_info' = r.st.torrent_info
       /\ ret' = [op |-> "add_torrent_info", status |-> r.status, data |-> data]
       /\ UNCHANGED <<file, now, saved, conc, proc, client>>

\* Tracker.save_state run to its end: what it does to the tracker and to
\* the document.
SaveState ==
  \E ord \in SaveOrders(Cur, now) :
    LET r  == SaveFrom(Cur, 1, now, ord)
        st == ReportFrom(r.st, r.st.torrents.keys, now)
    IN /\ torrents' = st.torrents
       /\ torrent_info' = st.torrent_info
       /\ file' = [exists |-> TRUE, json |-> TRUE, torrents |-> r.doc]
       /\ saved' = [exists |-> TRUE, st |-> st, at |-> now]

\* a call of Tracker.save_state
DoSaveState ==
  /\ SaveState
  /\ ret' = [op |-> "save_state"]
  /\ UNCHANGED <<now, conc, proc, client>>

\* the process ends and a new one starts: Tracker() runs load_state
Restart ==
  LET st == LoadState(file, now)
  IN /\ torrents' = st.torrents
     /\ torrent_info' = st.torrent_info
     /\ ret' = [op |-> "load_state"]
     /\ UNCHANGED <<file, now, saved, conc, proc, client>>

(* ------------------------------------------------------------------ *)
(* The Tracker's methods, called one at a time                         *)
(* ------------------------------------------------------------------ *)

Hashes == {HA, HB}
PeerInputs == {In1, In2}

\* Peer ids of the method calls; a peer id is any str, the empty one included.
PeerIds == {"A1", ""}

Next ==
  \/ Tick
  \/ DoAddPeer({HA}, PeerIds, PeerInputs)
  \/ DoAddPeer({HB}, {"A1"}, {In2})
  \/ DoGetPeers(Hashes, PeerIds \cup {NoneVal})
  \/ DoGetStats(Hashes)

Spec == Init /\ [][Next]_vars

(* ------------------------------------------------------------------ *)
(* The request handlers, one request at a time                         *)
(* ------------------------------------------------------------------ *)

\* Peer ids of the announce requests.
ClientIds == {"A1", "B1"}

\* The announce requests of the model: the well-formed ones carry the values
\* of In1 or In2, the others lack a required parameter or carry a bad port.
Requests ==
  {[q |-> Query(HA, p, Raw1), ip |-> In1.ip] : p \in ClientIds}
    \cup {[q |-> Query(HA, p, Raw2), ip |-> In2.ip] : p \in ClientIds}
    \cup {[q |-> Query(HB, "A1", Raw2), ip |-> In2.ip]}
    \cup {[q |-> bad, ip |-> In1.ip] :
            bad \in {[info_hash |-> HA, peer_id |-> "A1"],
                     [info_hash |-> HA, peer_id |-> "A1", port |-> "abc"],
                     [info_hash |-> HA, peer_id |-> "A1", port |-> "0"],
                     [info_hash |-> HA, port |-> "6881"],
                     [peer_id |-> "A1", port |-> "6881"]}}

\* The scrape requests of the model: for either info hash, or without one.
ScrapeQueries == {[info_hash |-> h] : h \in Hashes} \cup {EmptyMap}

NextHttp ==
  \/ Tick
  \/ DoAnnounce(Requests)
  \/ DoAddTorrentInfo(Hashes)
  \/ DoScrape(ScrapeQueries)

SpecHttp == Init /\ [][NextHttp]_vars

(* ------------------------------------------------------------------ *)
(* The tracker's life across saves and restarts                        *)
(* ------------------------------------------------------------------ *)

\* Across restarts the model follows one torrent, HA, and both clients.
NextPersist ==
  \/ Tick
  \/ DoAddPeer({HA}, ClientIds, PeerInputs)
  \/ DoGetPeers({HA}, ClientIds \cup {NoneVal})
  \/ DoGetStats({HA})
  \/ DoAddTorrentInfo({HA})
  \/ DoStats
  \/ DoSaveState
  \/ Restart

SpecPersist == Init /\ [][NextPersist]_vars

(* ------------------------------------------------------------------ *)
(* A start on a stored document                                        *)
(* ------------------------------------------------------------------ *)

\* The longest peers_info list of the modelled documents.
MaxListLen == 3

\* The peers_info entries of the modelled documents: both clients, two
\* values of last_seen, both sets of announce values.
StoredPeers ==
  {PeerToDict(NewPeer(p, in, t)) : p \in ClientIds, in \in PeerInputs, t \in {0, 1}}

\* The peers_info lists: every order, duplicates of a peer_id included.
StoredLists == UNION {[1..n -> StoredPeers] : n \in 0..MaxListLen}

\* A well-formed document holding the torrent HA with the peers_info list l.
DocumentOf(l) ==
  [exists |-> TRUE,
   json |-> TRUE,
   torrents |-> DPut(EmptyDict, HA,
                     [info |-> InfoToDict(TorrentInfo(HA, "", 0, 0, 0, "", "")),
                      peers_info |-> l,
                      stats |-> StatsOf({PeerFromDict(l[j]) : j \in DOMAIN l})])]

\* A process about to start on one of the documents, a second short of the
\* staleness threshold of last_seen = 0, or on it.
InitLoad ==
  /\ file \in {DocumentOf(l) : l \in StoredLists}
  /\ now \in {StaleAfter - 1, StaleAfter}
  /\ torrents = EmptyDict
  /\ torrent_info = EmptyDict
  /\ ret = NoRet
  /\ saved = NoSave
  /\ heap = <<>>
  /\ ref = EmptyMap
  /\ threads = EmptyMap
  /\ proc = Serving
  /\ client = NoClient

NextLoad == Restart

SpecLoad == InitLoad /\ [][NextLoad]_vars

(* ------------------------------------------------------------------ *)
(* A start on a damaged document                                       *)
(* ------------------------------------------------------------------ *)

\* The longest peers_info list of the second entry of a damaged document.
MaxDamagedLen == 2

\* The mapping d without the key k, and with the key k set to v.
Without(d, k) == [x \in (DOMAIN d) \ {k} |-> d[x]]
With(d, k, v) == [x \in (DOMAIN d) \cup {k} |-> IF x = k THEN v ELSE d[x]]

\* peers_info entries, whole and damaged: A1 seen at 1 and B1 seen at 0 as
\* to_dict wrote them; A1 seen at 0 without ip; B1 without last_seen; A1
\* without peer_id; B1 with a key Peer does not have; B1 with a null
\* last_seen.
DamagedPeers ==
  LET a1 == PeerToDict(NewPeer("A1", In1, 1))
      a0 == PeerToDict(NewPeer("A1", In1, 0))
      b0 == PeerToDict(NewPeer("B1", In2, 0))
  IN {a1, b0, Without(a0, "ip"), Without(b0, "last_seen"), Without(a1, "peer_id"),
      With(b0, "extra", 0), With(b0, "last_seen", NullSeen)}

\* The entry of the info hash h: its 'info' as to_dict wrote it ("ok"),
\* without info_hash ("nohash"), with a key TorrentInfo does not have
\* ("extra"), or no 'info' at all ("absent"); the peers_info list l.
EntryOf(h, kind, l) ==
  LET info == InfoToDict(TorrentInfo(h, "", 0, 0, 0, "", ""))
      rest == [peers_info |-> l, stats |-> StatsOf({})]
  IN CASE kind = "ok"     -> With(rest, "info", info)
       [] kind = "nohash" -> With(rest, "info", Without(info, "info_hash"))
       [] kind = "extra"  -> With(rest, "info", With(info, "extra", 0))
       [] kind = "absent" -> rest

DamagedLists(n) == UNION {[1..k -> DamagedPeers] : k \in 0..n}

\* The documents json.load reads: HA's entry, then HB's.
DamagedDocuments ==
  {[exists |-> TRUE,
    json |-> TRUE,
    torrents |-> DPut(DPut(EmptyDict, HA, EntryOf(HA, ka, la)), HB, EntryOf(HB, kb, lb))] :
     ka \in {"ok", "nohash", "extra", "absent"}, la \in DamagedLists(1),
     kb \in {"ok", "nohash"}, lb \in DamagedLists(MaxDamagedLen)}

\* No document, or a file that open() or json.load() raises on.
NoDocuments ==
  {[exists |-> FALSE, json |-> TRUE, torrents |-> EmptyDict],
   [exists |-> TRUE, json |-> FALSE, torrents |-> EmptyDict]}

\* A process about to start on one of these, a second short of the
\* staleness threshold of last_seen = 0, or on it.
InitStartup ==
  /\ file \in DamagedDocuments \cup NoDocuments
  /\ now \in {StaleAfter - 1, StaleAfter}
  /\ torrents = EmptyDict
  /\ torrent_info = EmptyDict
  /\ ret = NoRet
  /\ saved = NoSave
  /\ heap = <<>>
  /\ ref = EmptyMap
  /\ threads = EmptyMap
  /\ proc = Serving
  /\ client = NoClient

NextStartup == Restart

SpecStartup == InitStartup /\ [][NextStartup]_vars

(* ------------------------------------------------------------------ *)
(* Announce handlers running concurrently (app.run(threaded=True))     *)
(* ------------------------------------------------------------------ *)

\* The handler threads.
Threads == {"t1", "t2"}

\* The tracker the handlers start on: A1 announced HA at time 0.
ConcStart == AddPeer(State(EmptyDict, EmptyDict), HA, "A1", In1, 0)

\* The announces in progress: A1 again with either set of values, B1 for
\* the first time, B1 on a torrent the tracker does not know.
ConcRequests ==
  {[h |-> HA, p |-> "A1", in |-> In2],
   [h |-> HA, p |-> "A1", in |-> In1],
   [h |-> HA, p |-> "B1", in |-> In2],
   [h |-> HB, p |-> "B1", in |-> In2]}

\* A handler past the parsing of its parameters, about to call add_peer.
\* obj is the set object it holds, acc the set a comprehension built, call
\* tells whose get_peers runs (1: announce's, 2: get_stats's), peers and
\* stats are announce's locals.
HandlerOf(rq) ==
  [pc |-> "ap_check", h |-> rq.h, p |-> rq.p, in |-> rq.in, obj |-> 0, acc |-> {},
   call |-> 0, peers |-> {}, stats |-> EmptyMap, status |-> 0]

\* self.torrents as the dictionary of the sets its keys refer to.
ViewOf(keys, r, hp) == [keys |-> keys, at |-> [h \in DOMAIN r |-> hp[r[h]]]]

\* self.torrents[h] = s, s a new set object.
StoreSet(h, s) ==
  /\ heap' = Append(heap, s)
  /\ ref' = [x \in (DOMAIN ref) \cup {h} |-> IF x = h THEN Len(heap) + 1 ELSE ref[x]]
  /\ torrents' = ViewOf(IF h \in DOMAIN ref THEN torrents.keys ELSE Append(torrents.keys, h),
                        ref', heap')

\* The thread moves on with the fields of its record changed to those of upd.
Goto(t, upd) ==
  threads' = [threads EXCEPT ![t] = [f \in DOMAIN @ |-> IF f \in DOMAIN upd THEN upd[f] ELSE @[f]]]

InitConc ==
  /\ file = [exists |-> FALSE, json |-> TRUE, torrents |-> EmptyDict]
  /\ now = 1
  /\ torrents = ConcStart.torrents
  /\ torrent_info = ConcStart.torrent_info
  /\ ret = NoRet
  /\ saved = NoSave
  /\ heap = <<ConcStart.torrents.at[HA]>>
  /\ ref = [h \in {HA} |-> 1]
  /\ threads \in [Threads -> {HandlerOf(rq) : rq \in ConcRequests}]
  /\ proc = Serving
  /\ client = NoClient

\* add_peer: if info_hash not in self.torrents
ApCheck(t) ==
  /\ threads[t].pc = "ap_check"
  /\ Goto(t, [pc |-> IF threads[t].h \in DOMAIN ref THEN "ap_iter" ELSE "at_check_info"])
  /\ UNCHANGED <<torrents, torrent_info, file, now, ret, saved, heap, ref, proc, client>>

\* add_torrent: if info_hash not in self.torrent_info
AtCheckInfo(t) ==
  /\ threads[t].pc = "at_check_info"
  /\ Goto(t, [pc |-> IF ~Has(torrent_info, threads[t].h) THEN "at_set_info" ELSE "at_check_tor"])
  /\ UNCHANGED <<torrents, torrent_info, file, now, ret, saved, heap, ref, proc, client>>

\* add_torrent: self.torrent_info[info_hash] = TorrentInfo(...)
AtSetInfo(t) ==
  /\ threads[t].pc = "at_set_info"
  /\ torrent_info' = DPut(torrent_info, threads[t].h,
                          TorrentInfo(threads[t].h, "", 0, 0, now, "", ""))
  /\ Goto(t, [pc |-> "at_check_tor"])
  /\ UNCHANGED <<torrents, file, now, ret, saved, heap, ref, proc, client>>

\* add_torrent: if info_hash not in self.torrents
AtCheckTor(t) ==
  /\ threads[t].pc = "at_check_tor"
  /\ Goto(t, [pc |-> IF threads[t].h \notin DOMAIN ref THEN "at_set_tor" ELSE "ap_iter"])
  /\ UNCHANGED <<torrents, torrent_info, file, now, ret, saved, heap, ref, proc, client>>

\* add_torrent: self.torrents[info_hash] = set()
AtSetTor(t) ==
  /\ threads[t].pc = "at_set_tor"
  /\ StoreSet(threads[t].h, {})
  /\ Goto(t, [pc |-> "ap_iter"])
  /\ UNCHANGED <<torrent_info, file, now, ret, saved, proc, client>>

\* add_peer: the comprehension {p for p in self.torrents[info_hash] if ...}.
\* The iteration of the set is taken as one step.
ApIter(t) ==
  /\ threads[t].pc = "ap_iter"
  /\ Goto(t, [pc |-> "ap_store",
              acc |-> WithoutPeer(heap[ref[threads[t].h]], threads[t].p)])
  /\ UNCHANGED <<torrents, torrent_info, file, now, ret, saved, heap, ref, proc, client>>

\* add_peer: self.torrents[info_hash] = <the comprehension's set>
ApStore(t) ==
  /\ threads[t].pc = "ap_store"
  /\ StoreSet(threads[t].h, threads[t].acc)
  /\ Goto(t, [pc |-> "ap_load"])
  /\ UNCHANGED <<torrent_info, file, now, ret, saved, proc, client>>

\* add_peer: self.torrents[info_hash] is evaluated, for .add
ApLoad(t) ==
  /\ threads[t].pc = "ap_load"
  /\ Goto(t, [pc |-> "ap_add", obj |-> ref[threads[t].h]])
  /\ UNCHANGED <<torrents, torrent_info, file, now, ret, saved, heap, ref, proc, client>>

\* add_peer: .add(new_peer) on the object evaluated; announce goes on to
\* its call of get_peers.
ApAdd(t) ==
  /\ threads[t].pc = "ap_add"
  /\ heap' = [heap EXCEPT ![threads[t].obj] =
                @ \cup {NewPeer(threads[t].p, threads[t].in, now)}]
  /\ torrents' = ViewOf(torrents.keys, ref, heap')
  /\ Goto(t, [pc |-> "gp_load", call |-> 1])
  /\ UNCHANGED <<torrent_info, file, now, ret, saved, ref, proc, client>>

\* What get_peers' return changes in its caller: announce keeps the set
\* without the requester as peers and calls get_stats; get_stats, which
\* asked without a requester, builds stats and announce answers 200.
ReturnPeers(th, active) ==
  IF th.call = 1
  THEN [pc |-> "gs_check", peers |-> ExcludeRequester(active, th.p)]
  ELSE [pc |-> "done", stats |-> StatsOf(active), status |-> 200]

\* get_peers: if info_hash not in self.torrents: return set();
\* peers = self.torrents[info_hash]
GpLoad(t) ==
  /\ threads[t].pc = "gp_load"
  /\ IF threads[t].h \notin DOMAIN ref
     THEN Goto(t, ReturnPeers(threads[t], {}))
     ELSE Goto(t, [pc |-> "gp_iter", obj |-> ref[threads[t].h]])
  /\ UNCHANGED <<torrents, torrent_info, file, now, ret, saved, heap, ref, proc, client>>

\* get_peers: the comprehension that builds active_peers.  The iteration of
\* the set is taken as one step.
GpIter(t) ==
  /\ threads[t].pc = "gp_iter"
  /\ Goto(t, [pc |-> "gp_store", acc |-> ActiveOf(heap[threads[t].obj], now)])
  /\ UNCHANGED <<torrents, torrent_info, file, now, ret, saved, heap, ref, proc, client>>

\* get_peers: self.torrents[info_hash] = active_peers, and the return
GpStore(t) ==
  /\ threads[t].pc = "gp_store"
  /\ StoreSet(threads[t].h, threads[t].acc)
  /\ Goto(t, ReturnPeers(threads[t], threads[t].acc))
  /\ UNCHANGED <<torrent_info, file, now, ret, saved, proc, client>>

\* get_stats: if info_hash not in self.torrents: return {}, on which
\* announce's stats['complete'] raises and the handler answers 500
GsCheck(t) ==
  /\ threads[t].pc = "gs_check"
  /\ IF threads[t].h \notin DOMAIN ref
     THEN Goto(t, [pc |-> "done", status |-> 500])
     ELSE Goto(t, [pc |-> "gp_load", call |-> 2])
  /\ UNCHANGED <<torrents, torrent_info, file, now, ret, saved, heap, ref, proc, client>>

NextConc ==
  \E t \in Threads :
    \/ ApCheck(t)
    \/ AtCheckInfo(t)
    \/ AtSetInfo(t)
    \/ AtCheckTor(t)
    \/ AtSetTor(t)
    \/ ApIter(t)
    \/ ApStore(t)
    \/ ApLoad(t)
    \/ ApAdd(t)
    \/ GpLoad(t)
    \/ GpIter(t)
    \/ GpStore(t)
    \/ GsCheck(t)

SpecConc == InitConc /\ [][NextConc]_vars

(* ------------------------------------------------------------------ *)
(* find_similar_hash on its own                                        *)
(* ------------------------------------------------------------------ *)

\* The most keys existing_hashes holds in the modelled calls.
MaxKeys == 2

\* The strings of the modelled calls: two prefixes, no middle or one of two,
\* two suffixes (15 or 16 characters), and strings of 2, 14 and 15 equal
\* or nearly equal characters.
MatchStrings ==
  {P \o m \o S : P \in {Rep(1, 10), Rep(1, 9) \o <<3>>},
                 m \in {<<>>, <<7>>, <<8>>},
                 S \in {Rep(2, 5), <<4>> \o Rep(2, 4)}}
    \cup {<<1, 2>>, Rep(1, 14), Rep(1, 15)}

\* The key views of the modelled calls: distinct keys, in every order.
KeyViews ==
  {ks \in UNION {[1..n -> MatchStrings] : n \in 0..MaxKeys} :
     \A i, j \in DOMAIN ks : ks[i] = ks[j] => i = j}

\* A call of find_similar_hash about to be made.
InitMatch ==
  /\ file = [exists |-> FALSE, json |-> TRUE, torrents |-> EmptyDict]
  /\ now = 0
  /\ torrents = EmptyDict
  /\ torrent_info = EmptyDict
  /\ ret \in {[op |-> "call", target |-> t, keys |-> ks] : t \in MatchStrings, ks \in KeyViews}
  /\ saved = NoSave
  /\ heap = <<>>
  /\ ref = EmptyMap
  /\ threads = EmptyMap
  /\ proc = Serving
  /\ client = NoClient

\* the call returns
DoFindSimilarHash ==
  /\ ret.op = "call"
  /\ ret' = [op |-> "find_similar_hash", target |-> ret.target, keys |-> ret.keys,
             result |-> FindSimilarHash(ret.target, ret.keys)]
  /\ UNCHANGED <<torrents, torrent_info, file, now, saved, conc, proc, client>>

NextMatch == DoFindSimilarHash

SpecMatch == InitMatch /\ [][NextMatch]_vars

(* ------------------------------------------------------------------ *)
(* The process: start, shutdown request, final save, exit              *)
(* ------------------------------------------------------------------ *)

\* The process is running.
Alive == proc.main \notin {"exited0", "exited1"}

\* The server thread is running and answers requests.
ServerUp == Alive /\ proc.main # "start"

\* The process at the top of __main__'s try block, signal handlers set.
InitShutdown ==
  /\ file = [exists |-> FALSE, json |-> TRUE, torrents |-> EmptyDict]
  /\ now = 0
  /\ torrents = LoadState(file, now).torrents
  /\ torrent_info = LoadState(file, now).torrent_info
  /\ ret = NoRet
  /\ saved = NoSave
  /\ heap = <<>>
  /\ ref = EmptyMap
  /\ threads = EmptyMap
  /\ proc = [flag |-> FALSE, main |-> "start", fresh |-> FALSE]
  /\ client = NoClient

\* __main__: the server thread is created and started, the loop entered
MainStart ==
  /\ proc.main = "start"
  /\ proc' = [proc EXCEPT !.main = "loop"]
  /\ UNCHANGED <<torrents, torrent_info, file, now, ret, saved, conc, client>>

\* __main__: the start of the server thread raises
MainRaise ==
  /\ proc.main = "start"
  /\ proc' = [proc EXCEPT !.main = "except"]
  /\ UNCHANGED <<torrents, torrent_info, file, now, ret, saved, conc, client>>

\* signal_handler, run by the main thread on SIGINT or SIGTERM:
\* tracker.save_state(), then shutdown_event.set().  Its save_state starts
\* before it sets the event.
Signal ==
  /\ Alive
  /\ SaveState
  /\ proc' = [proc EXCEPT !.flag = TRUE, !.fresh = proc.flag]
  /\ ret' = NoRet
  /\ UNCHANGED <<now, conc, client>>

\* a request POST /shutdown: shutdown_event.set()
PostShutdown ==
  /\ ServerUp
  /\ proc' = [proc EXCEPT !.flag = TRUE, !.fresh = proc.flag /\ proc.fresh]
  /\ ret' = [op |-> "shutdown", status |-> 200]
  /\ UNCHANGED <<torrents, torrent_info, file, now, saved, conc, client>>

\* __main__: while not shutdown_event.is_set() finds the event set (until
\* then the loop sleeps and nothing changes)
MainPoll ==
  /\ proc.main = "loop"
  /\ proc.flag
  /\ proc' = [proc EXCEPT !.main = "final_save"]
  /\ UNCHANGED <<torrents, torrent_info, file, now, ret, saved, conc, client>>

\* The main thread leaving the loop for sys.exit(0) with no save_state.
MainSaveSkipped ==
  /\ proc.main = "final_save"
  /\ proc' = [proc EXCEPT !.main = "exit0"]
  /\ UNCHANGED <<torrents, torrent_info, file, now, ret, saved, conc, client>>

\* __main__: tracker.save_state() after the loop
MainSave ==
  /\ proc.main = "final_save"
  /\ SaveState
  /\ proc' = [proc EXCEPT !.main = "exit0", !.fresh = proc.flag]
  /\ ret' = NoRet
  /\ UNCHANGED <<now, conc, client>>

\* __main__: tracker.save_state() in the except branch
MainExceptSave ==
  /\ proc.main = "except"
  /\ SaveState
  /\ proc' = [proc EXCEPT !.main = "exit1", !.fresh = proc.flag]
  /\ ret' = NoRet
  /\ UNCHANGED <<now, conc, client>>

\* __main__: sys.exit(0), sys.exit(1)
MainExit ==
  /\ proc.main \in {"exit0", "exit1"}
  /\ proc' = [proc EXCEPT !.main = IF proc.main = "exit0" THEN "exited0" ELSE "exited1"]
  /\ UNCHANGED <<torrents, torrent_info, file, now, ret, saved, conc, client>>

\* The steps of the main thread.
MainStep == MainStart \/ MainRaise \/ MainPoll \/ MainSave \/ MainExceptSave \/ MainExit

NextShutdown ==
  \/ MainStart
  \/ MainRaise
  \/ MainPoll
  \/ MainSave
  \/ MainExceptSave
  \/ MainExit
  \/ Signal
  \/ PostShutdown
  \/ Alive /\ Tick
  \/ ServerUp /\ DoAddPeer({HA}, {"A1"}, {In2})

\* The main thread is scheduled: a step it can take is taken.
SpecShutdown == InitShutdown /\ [][NextShutdown]_vars /\ WF_vars(MainStep)

(* ------------------------------------------------------------------ *)
(* The metadata client add_torrent_info.py posting to the tracker      *)
(* ------------------------------------------------------------------ *)

\* The info hashes of the .torrent files on the command line, in order.
TorrentFiles == <<HA, HB>>

\* What an attempt's log entry holds when requests.post raised with no
\* HTTP response (connection refused, timeout); else the status code.
NoResponse == 0

\* response.raise_for_status() raises HTTPError for a status of 400..599.
RaisesForStatus(status) == status >= 400 /\ status < 600

\* main() about to process the first file: idx the file, attempt the loop
\* variable of add_torrent_to_tracker, log[i] what each POST for file i
\* met, slept[i] the seconds slept between the attempts for file i.
ClientStart ==
  [pc |-> "try", idx |-> 1, attempt |-> 0,
   log |-> [i \in DOMAIN TorrentFiles |-> <<>>],
   slept |-> [i \in DOMAIN TorrentFiles |-> 0]]

\* The client c when add_torrent_to_tracker has returned: main's loop
\* goes to the next file, or ends.
NextFile(c) ==
  [c EXCEPT !.idx = c.idx + 1, !.attempt = 0,
            !.pc = IF c.idx + 1 > Len(TorrentFiles) THEN "done" ELSE "try"]

\* The client c in "except requests.exceptions.RequestException": sleep
\* and go round the loop again unless this was the last attempt.
OnRequestException(c) ==
  IF c.attempt < MAX_RETRIES - 1 THEN [c EXCEPT !.pc = "sleep"] ELSE NextFile(c)

\* The client c with the outcome o of a POST logged for its file.
Logged(c, o) == [c EXCEPT !.log[c.idx] = Append(@, o)]

\* The tracker the client posts to: started on no document.
InitClient ==
  /\ file = [exists |-> FALSE, json |-> TRUE, torrents |-> EmptyDict]
  /\ now = 0
  /\ torrents = EmptyDict
  /\ torrent_info = EmptyDict
  /\ ret = NoRet
  /\ saved = NoSave
  /\ heap = <<>>
  /\ ref = EmptyMap
  /\ threads = EmptyMap
  /\ proc = Serving
  /\ client = ClientStart

\* main: validate_torrent_file fails, the file is passed over
ClientSkip ==
  /\ client.pc = "try"
  /\ client.attempt = 0
  /\ client' = NextFile(client)
  /\ UNCHANGED <<torrents, torrent_info, file, now, ret, saved, conc, proc>>

\* add_torrent_to_tracker: reading the file or building the payload raises
\* (no RequestException): "except Exception" prints and breaks
ClientReadError ==
  /\ client.pc = "try"
  /\ client' = NextFile(client)
  /\ UNCHANGED <<torrents, torrent_info, file, now, ret, saved, conc, proc>>

\* add_torrent_to_tracker: requests.post raises with no response
ClientPostNoResponse ==
  /\ client.pc = "try"
  /\ client' = OnRequestException(Logged(client, NoResponse))
  /\ UNCHANGED <<torrents, torrent_info, file, now, ret, saved, conc, proc>>

\* add_torrent_to_tracker: the POST reaches the tracker, whose handler
\* answers; raise_for_status, then return or the except branch
ClientPostAnswered ==
  /\ client.pc = "try"
  /\ LET data == MetaFull(TorrentFiles[client.idx])
         r    == AddTorrentInfo(Cur, data)
         c    == Logged(client, r.status)
     IN /\ torrents' = r.st.torrents
        /\ torrent_info' = r.st.torrent_info
        /\ ret' = [op |-> "add_torrent_info", status |-> r.status, data |-> data]
        /\ client' = IF RaisesForStatus(r.status) THEN OnRequestException(c)
                     ELSE NextFile(c)
  /\ UNCHANGED <<file, now, saved, conc, proc>>

\* add_torrent_to_tracker: time.sleep(RETRY_DELAY), then the next attempt
ClientSleep ==
  /\ client.pc = "sleep"
  /\ client' = [client EXCEPT !.pc = "try", !.attempt = @ + 1,
                              !.slept[client.idx] = @ + RETRY_DELAY]
  /\ UNCHANGED <<torrents, torrent_info, file, now, ret, saved, conc, proc>>

\* The steps of the client process.
ClientStep ==
  ClientSkip \/ ClientReadError \/ ClientPostNoResponse \/ ClientPostAnswered \/ ClientSleep

\* The client runs while peers announce the torrents of its files.
NextClient ==
  \/ ClientSkip
  \/ ClientReadError
  \/ ClientPostNoResponse
  \/ ClientPostAnswered
  \/ ClientSleep
  \/ DoAddPeer({HA, HB}, {"A1"}, {In1})

\* The client process is scheduled; a POST returns or raises within
\* REQUEST_TIMEOUT, a sleep ends.
SpecClient == InitClient /\ [][NextClient]_vars /\ WF_vars(ClientStep)

(* ------------------------------------------------------------------ *)
(* save_state running while an announce handler runs                   *)
(* ------------------------------------------------------------------ *)

\* The announces that can run beside the save: B1 for the first time on
\* HA, A1 again on HA, B1 on a torrent the tracker does not know.
SaveRequests ==
  {[h |-> HA, p |-> "B1", in |-> In2],
   [h |-> HA, p |-> "A1", in |-> In2],
   [h |-> HB, p |-> "B1", in |-> In2]}

\* A thread about to call save_state (the handler of GET /save_state, the
\* main thread after its loop).  n and i are the dict iterator in use (the
\* size of the dict when it was made, the entries passed), h the key at
\* hand, call tells whose get_peers runs (1: the one of 'peers_info',
\* 2: get_stats' for 'stats', 3: get_stats' for the report after the
\* dump), obj and acc are as in a handler, list is 'peers_info' of the
\* entry at hand, doc the 'torrents' of state so far.
SaverStart ==
  [pc |-> "sv_items", n |-> 0, i |-> 0, h |-> NoneHash, call |-> 0, obj |-> 0,
   acc |-> {}, list |-> <<>>, doc |-> EmptyDict]

\* The saver once get_stats has returned stats: the entry of the
\* comprehension is complete (call 2), or a line of the report is printed.
AfterStats(th, stats) ==
  IF th.call = 2
  THEN [pc |-> "sv_next",
        doc |-> DPut(th.doc, th.h,
                     [info |-> InfoToDict(torrent_info.at[th.h]),
                      peers_info |-> th.list,
                      stats |-> stats])]
  ELSE [pc |-> "sv_report_next"]

InitConcSave ==
  /\ file = [exists |-> FALSE, json |-> TRUE, torrents |-> EmptyDict]
  /\ now \in {1, StaleAfter}
  /\ torrents = ConcStart.torrents
  /\ torrent_info = ConcStart.torrent_info
  /\ ret = NoRet
  /\ saved = NoSave
  /\ heap = <<ConcStart.torrents.at[HA]>>
  /\ ref = [h \in {HA} |-> 1]
  /\ threads \in {[t \in {"t1", "s"} |-> IF t = "s" THEN SaverStart ELSE HandlerOf(rq)] :
                    rq \in SaveRequests}
  /\ proc = Serving
  /\ client = NoClient

\* save_state: self.torrent_info.items() is about to be iterated
SvItems(t) ==
  /\ threads[t].pc = "sv_items"
  /\ Goto(t, [pc |-> "sv_next", n |-> Len(torrent_info.keys), i |-> 0])
  /\ UNCHANGED <<torrents, torrent_info, file, now, ret, saved, heap, ref, proc, client>>

\* save_state: the comprehension takes the next item of torrent_info.  The
\* iterator raises RuntimeError if the dict has changed size, which
\* "except Exception" catches: nothing is written.
SvNext(t) ==
  /\ threads[t].pc = "sv_next"
  /\ IF Len(torrent_info.keys) # threads[t].n
     THEN Goto(t, [pc |-> "done"])
     ELSE IF threads[t].i = threads[t].n
     THEN Goto(t, [pc |-> "sv_dump"])
     ELSE Goto(t, [pc |-> "sv_gp_load", i |-> threads[t].i + 1,
                   h |-> torrent_info.keys[threads[t].i + 1], call |-> 1])
  /\ UNCHANGED <<torrents, torrent_info, file, now, ret, saved, heap, ref, proc, client>>

\* get_peers: if info_hash not in self.torrents: return set();
\* peers = self.torrents[info_hash]
SvGpLoad(t) ==
  /\ threads[t].pc = "sv_gp_load"
  /\ IF threads[t].h \notin DOMAIN ref
     THEN IF threads[t].call = 1
          THEN Goto(t, [pc |-> "sv_gs_check", list |-> <<>>, call |-> 2])
          ELSE Goto(t, AfterStats(threads[t], StatsOf({})))
     ELSE Goto(t, [pc |-> "sv_gp_iter", obj |-> ref[threads[t].h]])
  /\ UNCHANGED <<torrents, torrent_info, file, now, ret, saved, heap, ref, proc, client>>

\* get_peers: the comprehension that builds active_peers
SvGpIter(t) ==
  /\ threads[t].pc = "sv_gp_iter"
  /\ Goto(t, [pc |-> "sv_gp_store", acc |-> ActiveOf(heap[threads[t].obj], now)])
  /\ UNCHANGED <<torrents, torrent_info, file, now, ret, saved, heap, ref, proc, client>>

\* get_peers: self.torrents[info_hash] = active_peers, and the return: to
\* save_state, which goes on to iterate the set object returned, or to
\* get_stats, which builds stats from it
SvGpStore(t) ==
  /\ threads[t].pc = "sv_gp_store"
  /\ StoreSet(threads[t].h, threads[t].acc)
  /\ IF threads[t].call = 1
     THEN Goto(t, [pc |-> "sv_list", obj |-> Len(heap) + 1])
     ELSE Goto(t, AfterStats(threads[t], StatsOf(threads[t].acc)))
  /\ UNCHANGED <<torrent_info, file, now, ret, saved, proc, client>>

\* save_state: [peer.to_dict() for peer in <the set get_peers returned>].
\* The iteration of the set is taken as one step.
SvList(t) ==
  /\ threads[t].pc = "sv_list"
  /\ \E ord \in Orderings(heap[threads[t].obj]) :
       Goto(t, [pc |-> "sv_gs_check", call |-> 2,
                list |-> [j \in DOMAIN ord |-> PeerToDict(ord[j])]])
  /\ UNCHANGED <<torrents, torrent_info, file, now, ret, saved, heap, ref, proc, client>>

\* get_stats: if info_hash not in self.torrents: return {}
SvGsCheck(t) ==
  /\ threads[t].pc = "sv_gs_check"
  /\ IF threads[t].h \notin DOMAIN ref
     THEN Goto(t, AfterStats(threads[t], EmptyMap))
     ELSE Goto(t, [pc |-> "sv_gp_load"])
  /\ UNCHANGED <<torrents, torrent_info, file, now, ret, saved, heap, ref, proc, client>>

\* save_state: json.dump(state, f), and self.torrents.items() is about to
\* be iterated for the report
SvDump(t) ==
  /\ threads[t].pc = "sv_dump"
  /\ file' = [exists |-> TRUE, json |-> TRUE, torrents |-> threads[t].doc]
  /\ saved' = [exists |-> TRUE, st |-> Cur, at |-> now]
  /\ Goto(t, [pc |-> "sv_report_next", n |-> Len(torrents.keys), i |-> 0])
  /\ UNCHANGED <<torrents, torrent_info, now, ret, heap, ref, proc, client>>

\* save_state: the report takes the next item of self.torrents and calls
\* get_stats; the iterator raises if the dict has changed size
SvReportNext(t) ==
  /\ threads[t].pc = "sv_report_next"
  /\ IF Len(torrents.keys) # threads[t].n \/ threads[t].i = threads[t].n
     THEN Goto(t, [pc |-> "done"])
     ELSE Goto(t, [pc |-> "sv_gs_check", i |-> threads[t].i + 1,
                   h |-> torrents.keys[threads[t].i + 1], call |-> 3])
  /\ UNCHANGED <<torrents, torrent_info, file, now, ret, saved, heap, ref, proc, client>>

\* The announce handler t1 and the saver s, interleaved at their reads and
\* stores of the two dicts.
NextConcSave ==
  \/ ApCheck("t1")
  \/ AtCheckInfo("t1")
  \/ AtSetInfo("t1")
  \/ AtCheckTor("t1")
  \/ AtSetTor("t1")
  \/ ApIter("t1")
  \/ ApStore("t1")
  \/ ApLoad("t1")
  \/ ApAdd("t1")
  \/ GpLoad("t1")
  \/ GpIter("t1")
  \/ GpStore("t1")
  \/ GsCheck("t1")
  \/ SvItems("s")
  \/ SvNext("s")
  \/ SvGpLoad("s")
  \/ SvGpIter("s")
  \/ SvGpStore("s")
  \/ SvList("s")
  \/ SvGsCheck("s")
  \/ SvDump("s")
  \/ SvReportNext("s")

SpecConcSave == InitConcSave /\ [][NextConcSave]_vars

(* ------------------------------------------------------------------ *)
(* Properties                                                          *)
(* ------------------------------------------------------------------ *)

\* No two records of one swarm carry the same peer_id.
OnePerId(d) ==
  \A h \in DOMAIN d.at : \A x, y \in d.at[h] : x.peer_id = y.peer_id => x = y

\* The record an add_peer call with the values in made at time t must leave.
RecordOfCall(p, in, t) ==
  [peer_id |-> p, ip |-> in.ip, port |-> in.port, last_seen |-> t,
   uploaded |-> in.uploaded, downloaded |-> in.downloaded, left |-> in.left,
   is_seeder |-> (in.left = 0)]

\* C1: over add_peer, get_peers, get_stats, save_state and metadata updates
\* (every step but a restart), a swarm never holds two records of one
\* peer_id; a record that a step puts into a swarm is put there by an
\* add_peer call for that swarm and peer_id and carries exactly the call's
\* ip, port, uploaded, downloaded, left and the call's time; after such a
\* call it is the only record of that peer_id; every other record a swarm
\* holds was there, unchanged, before the step.
C1_LatestRecordOnly ==
  [][ret'.op # "load_state" =>
        /\ OnePerId(torrents')
        /\ \A h \in DOMAIN torrents'.at : \A x \in torrents'.at[h] :
             \/ Has(torrents, h) /\ x \in torrents.at[h]
             \/ \E in \in PeerInputs :
                  /\ DoAddPeer({h}, {x.peer_id}, {in})
                  /\ x = RecordOfCall(x.peer_id, in, now)
        /\ (ret'.op = "none" /\ now' = now) =>
             \A h \in Hashes, p \in ClientIds, in \in PeerInputs :
               DoAddPeer({h}, {p}, {in}) =>
                 {x \in torrents'.at[h] : x.peer_id = p} = {RecordOfCall(p, in, now)}]_vars

\* C1's case: A1 announced HA at time 0 and again, with other values, at
\* 1799; the swarm holds the second record only.
C1_Witness ==
  /\ ~file.exists
  /\ now = StaleAfter - 1
  /\ Has(torrents, HA)
  /\ torrent_info.at[HA].creation_date = 0
  /\ torrents.at[HA] = {RecordOfCall("A1", In2, now)}

\* C2: a get_peers without a requester on a known info hash returns exactly
\* the stored peers with now - last_seen < 1800; a get_stats counts exactly
\* those; after either read the swarm holds no peer with
\* now - last_seen >= 1800.
C2_ReadsEvictStale ==
  [][/\ (ret'.op = "get_peers" /\ Has(torrents, ret'.h)) =>
          /\ ret'.req = NoneVal =>
               ret'.peers = {x \in torrents.at[ret'.h] : now - x.last_seen < 1800}
          /\ ret'.peers \subseteq {x \in torrents.at[ret'.h] : now - x.last_seen < 1800}
          /\ \A x \in torrents'.at[ret'.h] : ~(now - x.last_seen >= 1800)
     /\ (ret'.op = "get_stats" /\ Has(torrents, ret'.h)) =>
          /\ ret'.stats["peers"] =
               Cardinality({x \in torrents.at[ret'.h] : now - x.last_seen < 1800})
          /\ \A x \in torrents'.at[ret'.h] : ~(now - x.last_seen >= 1800)]_vars

\* C2's case: a swarm created at time 0 is read at time 1800 and the read
\* returns nobody: its peer, exactly 1800 seconds old, was evicted.
C2_Witness ==
  /\ ret.op = "get_peers"
  /\ ret.req = NoneVal
  /\ now = StaleAfter
  /\ Has(torrents, ret.h)
  /\ torrent_info.at[ret.h].creation_date = 0
  /\ ret.peers = {}
  /\ torrents.at[ret.h] = {}

\* C3: every stored peer has is_seeder = (left = 0); a get_stats on a known
\* info hash reports complete + incomplete = peers = the number of peers
\* get_peers returns at that instant, complete being those with left = 0.
C3_SeedersAndCounts ==
  /\ \A h \in DOMAIN torrents.at : \A x \in torrents.at[h] :
       x.is_seeder = (x.left = 0)
  /\ (ret.op = "get_stats" /\ Has(torrents, ret.h)) =>
       LET nonstale == {x \in torrents.at[ret.h] : now - x.last_seen < 1800}
       IN /\ ret.stats["complete"] + ret.stats["incomplete"] = ret.stats["peers"]
          /\ ret.stats["peers"] = Cardinality(nonstale)
          /\ ret.stats["complete"] = Cardinality({x \in nonstale : x.left = 0})

\* C3's case: a get_stats that counts one seeder and one leecher.
C3_Witness ==
  /\ ret.op = "get_stats"
  /\ Has(torrents, ret.h)
  /\ ret.stats["complete"] = 1
  /\ ret.stats["incomplete"] = 1

\* C4: get_peers(info_hash, requesting_peer_id = p), p any peer id add_peer
\* can store, never returns a record whose peer_id is p, and returns every
\* other non-stale peer of the swarm.
C4_RequesterExcluded ==
  (ret.op = "get_peers" /\ ret.req # NoneVal) =>
    /\ \A x \in ret.peers : x.peer_id # ret.req
    /\ Has(torrents, ret.h) =>
         ret.peers = {x \in torrents.at[ret.h] :
                        x.peer_id # ret.req /\ now - x.last_seen < 1800}

\* C5: a successful announce of peer p for info hash h answers interval 1800,
\* a peer list that is exactly the non-stale peers of h other than p, each
\* as (peer_id, ip, port), and complete / incomplete counting the non-stale
\* peers of h with p itself, so that complete + incomplete = len(peers) + 1.
C5_AnnounceResponse ==
  [][(ret'.op = "announce" /\ ret'.status = 200) =>
        LET h == ret'.h
            p == ret'.p
            others == IF Has(torrents, h)
                      THEN {x \in torrents.at[h] :
                              x.peer_id # p /\ now - x.last_seen < 1800}
                      ELSE {}
            self == {x \in torrents'.at[h] : x.peer_id = p}
            body == ret'.body
        IN /\ body.interval = 1800
           /\ Len(body.peers) = Cardinality(others)
           /\ Range(body.peers) =
                {[peer_id |-> x.peer_id, ip |-> x.ip, port |-> x.port] : x \in others}
           /\ Cardinality(self) = 1
           /\ body.complete = Cardinality({x \in others \cup self : x.left = 0})
           /\ body.incomplete = Cardinality({x \in others \cup self : x.left # 0})
           /\ body.complete + body.incomplete = Len(body.peers) + 1]_vars

\* C5's case: B1 (left = 100) announces a swarm where A1 (left = 0) is: the
\* response lists A1 alone and counts one seeder and one leecher.
C5_Witness ==
  /\ ret.op = "announce"
  /\ ret.status = 200
  /\ ret.p = "B1"
  /\ ret.body.peers = <<[peer_id |-> "A1", ip |-> In1.ip, port |-> In1.port]>>
  /\ ret.body.complete = 1
  /\ ret.body.incomplete = 1

\* The peers of a saved swarm still active at time t.
SavedActive(h, t) ==
  IF Has(saved.st.torrents, h)
  THEN {x \in saved.st.torrents.at[h] : t - x.last_seen < 1800}
  ELSE {}

\* C8: after a load_state of the document the last save_state wrote, no
\* saved peer having become stale in between, every torrent saved with at
\* least one non-stale peer has its TorrentRecord back field for field and
\* its peer set back record for record.
C8_RoundTrip ==
  (/\ ret.op = "load_state"
   /\ saved.exists
   /\ \A h \in DOMAIN saved.st.torrent_info.at :
        SavedActive(h, now) = SavedActive(h, saved.at)) =>
    \A h \in DOMAIN saved.st.torrent_info.at :
      SavedActive(h, saved.at) # {} =>
        /\ Has(torrent_info, h)
        /\ torrent_info.at[h] = saved.st.torrent_info.at[h]
        /\ Has(torrents, h)
        /\ torrents.at[h] = SavedActive(h, saved.at)

\* C8's case: two peers of HA and its updated metadata, saved at time 0, are
\* restored 1799 seconds later.
C8_Witness ==
  /\ ret.op = "load_state"
  /\ saved.exists
  /\ saved.at = 0
  /\ now = StaleAfter - 1
  /\ Has(torrents, HA)
  /\ Cardinality(torrents.at[HA]) = 2
  /\ torrent_info.at[HA].name = "ubuntu.iso"
  /\ SavedActive(HA, now) = torrents.at[HA]

\* C9: after load_state every info hash left with no non-stale peer, its
\* stored list holding stale peers only or no peer at all, is in neither
\* map.
C9_EmptyTorrentsDropped ==
  ret.op = "load_state" =>
    \A h \in Hashes :
      (~Has(torrents, h) \/ {x \in torrents.at[h] : now - x.last_seen < 1800} = {}) =>
        (~Has(torrents, h) /\ ~Has(torrent_info, h))

\* The entries of the stored list l that carry the peer_id p.
EntriesOf(l, p) == {j \in DOMAIN l : l[j]["peer_id"] = p}

\* C10: after load_state on a document, for every peer_id that a stored
\* peers_info list holds, once or several times, the swarm holds the record
\* of an entry of that peer_id with the greatest last_seen and no other
\* record of that peer_id if that greatest last_seen is less than 1800
\* seconds old, and no record of that peer_id otherwise.
C10_NewestDuplicateKept ==
  (ret.op = "load_state" /\ file.exists) =>
    \A h \in DOMAIN file.torrents.at :
      LET l == file.torrents.at[h]["peers_info"]
          swarm == IF Has(torrents, h) THEN torrents.at[h] ELSE {}
      IN \A p \in {l[j]["peer_id"] : j \in DOMAIN l} :
           LET newest == CHOOSE j \in EntriesOf(l, p) :
                           \A k \in EntriesOf(l, p) : l[k]["last_seen"] <= l[j]["last_seen"]
               kept == {x \in swarm : x.peer_id = p}
           IN IF now - l[newest]["last_seen"] < 1800
              THEN /\ Cardinality(kept) = 1
                   /\ \A x \in kept :
                        /\ x.last_seen = l[newest]["last_seen"]
                        /\ \E j \in EntriesOf(l, p) : \A f \in PeerFields : x[f] = l[j][f]
              ELSE kept = {}

\* C10's case: the list holds A1 three times, last seen at 0, at 1 and at 0;
\* loaded at time 1800, the swarm holds the entry of time 1 alone.
C10_Witness ==
  /\ ret.op = "load_state"
  /\ now = StaleAfter
  /\ file.exists
  /\ Has(file.torrents, HA)
  /\ file.torrents.at[HA]["peers_info"] =
       <<PeerToDict(NewPeer("A1", In1, 0)), PeerToDict(NewPeer("A1", In2, 1)),
         PeerToDict(NewPeer("A1", In2, 0))>>
  /\ Has(torrents, HA)
  /\ torrents.at[HA] = {NewPeer("A1", In2, 1)}

\* C6: once every concurrent announce handler has returned, the swarm of
\* each announced info hash holds exactly one record for each peer id that
\* announced it: no upsert is lost and no peer id is held twice.
C6_ConcurrentUpsertsKept ==
  (threads # EmptyMap /\ \A t \in DOMAIN threads : threads[t].pc = "done") =>
    \A t \in DOMAIN threads :
      /\ Has(torrents, threads[t].h)
      /\ Cardinality({x \in torrents.at[threads[t].h] : x.peer_id = threads[t].p}) = 1

\* The peer ids that were in the swarm of h, none of them stale, when the
\* handlers started, and that a handler is announcing again.
Reannouncing(h) ==
  {x.peer_id : x \in IF Has(ConcStart.torrents, h)
                     THEN ActiveOf(ConcStart.torrents.at[h], now) ELSE {}}
    \cap {threads[u].p : u \in {v \in DOMAIN threads : threads[v].h = h}}

\* C7: a peer that was in the swarm and is announcing again, never stale, is
\* in the result of every get_peers of a concurrent handler that did not ask
\* to exclude it, and among the peers every get_stats counted.
C7_ReadersSeeWholeSwarm ==
  \A t \in DOMAIN threads :
    LET th == threads[t]
    IN /\ (th.pc = "gs_check" \/ th.call = 2 \/ th.pc = "done") =>
            \A q \in Reannouncing(th.h) \ {th.p} : \E x \in th.peers : x.peer_id = q
       /\ (th.pc = "done" /\ th.status = 200) =>
            \A q \in Reannouncing(th.h) : \E x \in th.acc : x.peer_id = q

\* Strings a and b are both at least 15 long and agree on their first 10 and
\* on their last 5 characters.
Similar(a, b) ==
  /\ Len(a) >= 15
  /\ Len(b) >= 15
  /\ \A i \in 1..10 : a[i] = b[i]
  /\ \A i \in 0..4 : a[Len(a) - i] = b[Len(b) - i]

\* C11: find_similar_hash(target, keys) returns a key only if the key is one
\* of keys and target and key are both at least 15 long and agree on their
\* first 10 and last 5 characters; it returns such a key whenever keys holds
\* one, and None otherwise (target shorter than 15 included).
C11_SimilarHashFound ==
  ret.op = "find_similar_hash" =>
    /\ ret.result # NoneHash =>
         /\ ret.result \in Range(ret.keys)
         /\ Similar(ret.target, ret.result)
    /\ (\E k \in Range(ret.keys) : Similar(ret.target, k)) => ret.result # NoneHash
    /\ Len(ret.target) < 15 => ret.result = NoneHash

\* C11's case: the key differs from the target in its middle character only
\* and is returned, behind a key that differs in its suffix.
C11_Witness ==
  /\ ret.op = "find_similar_hash"
  /\ ret.target = HA
  /\ ret.keys = <<Rep(1, 10) \o <<7>> \o <<4>> \o Rep(2, 4), HB>>
  /\ ret.result = HB

\* C12: a metadata update whose body has no info_hash, or whose info_hash
\* matches no info hash that has a TorrentRecord, answers 400 and leaves
\* both maps as they were; one whose info_hash matches an info hash that has
\* a TorrentRecord succeeds.
C12_MetadataUpdateOutcome ==
  [][ret'.op = "add_torrent_info" =>
       IF /\ "info_hash" \in DOMAIN ret'.data
          /\ \E k \in DOMAIN torrent_info.at : Similar(ret'.data["info_hash"], k)
       THEN ret'.status = 200
       ELSE /\ ret'.status = 400
            /\ torrents' = torrents
            /\ torrent_info' = torrent_info]_vars

\* C13: every TorrentRecord's info_hash is the key it is stored under, in
\* every state; a metadata update answered 200 leaves every swarm, the keys
\* of both maps and every TorrentRecord but one as they were, and of that
\* one changes nothing but name, size, piece_length, comment and created_by.
C13_UpdateFrame ==
  [][/\ \A h \in DOMAIN torrent_info'.at : torrent_info'.at[h].info_hash = h
     /\ (ret'.op = "add_torrent_info" /\ ret'.status = 200) =>
          /\ torrents' = torrents
          /\ torrent_info'.keys = torrent_info.keys
          /\ \A h \in DOMAIN torrent_info.at :
               /\ torrent_info'.at[h].info_hash = torrent_info.at[h].info_hash
               /\ torrent_info'.at[h].creation_date = torrent_info.at[h].creation_date
          /\ Cardinality({h \in DOMAIN torrent_info.at :
                            torrent_info'.at[h] # torrent_info.at[h]}) <= 1]_vars

\* C13's case: both torrents known, HA first; the metadata posted for HB
\* lands on HA's record, whose info_hash and creation_date stay, and HB's
\* record, created at another time, is as add_torrent made it.
C13_Witness ==
  /\ ret.op = "add_torrent_info"
  /\ ret.status = 200
  /\ ret.data = MetaFull(HB)
  /\ Has(torrent_info, HA)
  /\ Has(torrent_info, HB)
  /\ torrent_info.at[HA] = TorrentInfo(HA, "ubuntu.iso", 350, 16384, 0, "c", "mk")
  /\ torrent_info.at[HB] = TorrentInfo(HB, "", 0, 0, StaleAfter, "", "")
  /\ torrents.at[HB] # {}

\* C14: an announce whose query lacks info_hash, peer_id or port, or whose
\* port is no integer, is answered 400 and leaves both maps as they were.
C14_BadAnnounceIs400 ==
  [][(/\ ret'.op = "announce"
      /\ \/ {"info_hash", "peer_id", "port"} \ DOMAIN ret'.q # {}
         \/ ~ParsesAsInt(ret'.q["port"])) =>
       /\ ret'.status = 400
       /\ torrents' = torrents
       /\ torrent_info' = torrent_info]_vars

\* C15: a scrape adds no peer, no swarm and no TorrentRecord (what it removes
\* is stale peers); for an info hash without a swarm it leaves both maps as
\* they were and answers 200.
C15_ScrapeReadOnly ==
  [][ret'.op = "scrape" =>
       /\ torrent_info' = torrent_info
       /\ torrents'.keys = torrents.keys
       /\ \A h \in DOMAIN torrents.at : torrents'.at[h] \subseteq torrents.at[h]
       /\ ("info_hash" \in DOMAIN ret'.q /\ ~Has(torrents, ret'.q["info_hash"])) =>
            /\ torrents' = torrents
            /\ ret'.status = 200]_vars

\* C16: the document GET /stats answers with has an entry for every info
\* hash that has a TorrentRecord and for no other, also after a restart.
C16_StatsListsKnownTorrents ==
  ret.op = "stats" =>
    /\ ret.status = 200
    /\ DOMAIN ret.body = DOMAIN torrent_info.at

\* C17: no step but a restart takes an info hash out of the swarm map or
\* out of the TorrentRecord map; a get_stats on a swarm whose peers are all
\* stale leaves the swarm in place, empty, and reports complete =
\* incomplete = peers = 0.
C17_SwarmsPersist ==
  [][ret'.op # "load_state" =>
       /\ DOMAIN torrents.at \subseteq DOMAIN torrents'.at
       /\ DOMAIN torrent_info.at \subseteq DOMAIN torrent_info'.at
       /\ (/\ ret'.op = "get_stats"
           /\ Has(torrents, ret'.h)
           /\ \A x \in torrents.at[ret'.h] : now - x.last_seen >= 1800) =>
            /\ Has(torrents', ret'.h)
            /\ torrents'.at[ret'.h] = {}
            /\ ret'.stats["complete"] = 0
            /\ ret'.stats["incomplete"] = 0
            /\ ret'.stats["peers"] = 0]_vars

\* C17's case: HA was announced at time 0 and never saved; a get_stats at
\* time 1800 or later reports nobody and the swarm is still there, empty.
C17_Witness ==
  /\ ret.op = "get_stats"
  /\ ret.h = HA
  /\ now >= StaleAfter
  /\ ~file.exists
  /\ Has(torrents, HA)
  /\ torrents.at[HA] = {}
  /\ ret.stats["peers"] = 0
  /\ torrent_info.at[HA].creation_date = 0

\* C18: once shutdown_event is set the process exits; and when it has exited
\* through the end of the main loop, shutdown_event was set and a
\* save_state has started since it was set.
C18_ShutdownSavesThenExits ==
  /\ proc.flag ~> (proc.main \in {"exited0", "exited1"})
  /\ [](proc.main = "exited0" => (proc.flag /\ proc.fresh))

\* C18's case: POST /shutdown at time 1800 with a peer in the swarm; the
\* process has exited with the document written at that time.
C18_Witness ==
  /\ proc.main = "exited0"
  /\ proc.fresh
  /\ ret.op = "shutdown"
  /\ file.exists
  /\ saved.at = StaleAfter
  /\ Has(saved.st.torrents, HA)
  /\ saved.st.torrents.at[HA] # {}

\* The maps of a Tracker that holds nothing.
BothEmpty == torrents = EmptyDict /\ torrent_info = EmptyDict

\* C19: after load_state, both maps are empty when there was no document,
\* when the try block raised anywhere (reading, parsing, rebuilding the
\* records, the cleanup), and in particular when the file cannot be read
\* or parsed, when an entry has no 'info' or an 'info' without info_hash,
\* and when a stored peer has no last_seen.
C19_LoadFailureEmpties ==
  ret.op = "load_state" =>
    /\ ~file.exists => BothEmpty
    /\ (file.exists /\ LoadAttempt(file, now).raised) => BothEmpty
    /\ (file.exists /\ ~file.json) => BothEmpty
    /\ (file.exists /\ \E h \in DOMAIN file.torrents.at :
          \/ "info" \notin DOMAIN file.torrents.at[h]
          \/ "info_hash" \notin DOMAIN file.torrents.at[h]["info"]) => BothEmpty
    /\ (file.exists /\ \E h \in DOMAIN file.torrents.at :
          \E j \in DOMAIN file.torrents.at[h]["peers_info"] :
            "last_seen" \notin DOMAIN file.torrents.at[h]["peers_info"][j]) => BothEmpty

\* C19's case: HA's record and swarm were rebuilt when the loop raised on
\* HB's peers_info; both maps are empty after load_state.
C19_Witness ==
  /\ ret.op = "load_state"
  /\ file.exists
  /\ file.json
  /\ LoadAttempt(file, now).raised
  /\ Has(LoadAttempt(file, now).st.torrents, HA)
  /\ LoadAttempt(file, now).st.torrents.at[HA] # {}
  /\ Has(LoadAttempt(file, now).st.torrent_info, HB)
  /\ BothEmpty

\* The POSTs made for the i-th file.
Attempts(i) == Len(client.log[i])

\* For every file the client makes at most MAX_RETRIES POSTs and has slept
\* RETRY_DELAY seconds before every POST but the first.
ClientAttemptsBounded ==
  \A i \in DOMAIN TorrentFiles :
    /\ Attempts(i) <= MAX_RETRIES
    /\ client.slept[i] <= RETRY_DELAY * Attempts(i)
    /\ (Attempts(i) > 0 /\ ~(client.idx = i /\ client.pc = "try")) =>
         client.slept[i] >= RETRY_DELAY * (Attempts(i) - 1)

\* The client ends.
ClientTerminates == <>(client.pc = "done")

\* C20: for every file the client makes at most MAX_RETRIES POSTs, sleeps
\* RETRY_DELAY before each retry, and every POST that was followed by
\* another one for the same file had met no HTTP response: after an
\* answer of the tracker, 2xx or not, there is no further POST.
C20_NoAttemptAfterAnswer ==
  /\ ClientAttemptsBounded
  /\ \A i \in DOMAIN TorrentFiles :
       \A j \in 1..(Attempts(i) - 1) : client.log[i][j] = NoResponse

\* C21: in every state between two operations the info hashes that have a
\* swarm (the keys of torrents) are the info hashes that have a
\* TorrentRecord (the keys of torrent_info).
C21_SwarmIffRecord == DOMAIN torrents.at = DOMAIN torrent_info.at

\* The entry e of a document agrees with itself: its stats count the
\* entries of its peers_info, those with left = 0 as complete, the rest as
\* incomplete, and no entry of peers_info was stale at time t.
EntryConsistent(e, t) ==
  /\ {"peers", "complete", "incomplete"} \subseteq DOMAIN e.stats
  /\ e.stats["peers"] = Len(e.peers_info)
  /\ e.stats["complete"] = Cardinality({j \in DOMAIN e.peers_info : e.peers_info[j]["left"] = 0})
  /\ e.stats["incomplete"] = Cardinality({j \in DOMAIN e.peers_info : e.peers_info[j]["left"] # 0})
  /\ \A j \in DOMAIN e.peers_info : t - e.peers_info[j]["last_seen"] < StaleAfter

\* C22: every entry of the document save_state wrote has the stats of the
\* peers_info list beside them and no entry of peers_info that was stale
\* when the document was written.
C22_SnapshotConsistent ==
  (file.exists /\ saved.exists) =>
    \A h \in DOMAIN file.torrents.at : EntryConsistent(file.torrents.at[h], saved.at)

====
